---- MODULE Spec2Model ----
(***************************************************************************)
(* Model of overload/__init__.py: FunctionOverload (an ordered group of    *)
(* candidate functions with first-match dispatch), the `overload`          *)
(* decorator that collects same-named definitions of a scope into one      *)
(* group, and the overload registry (ledger) that published candidates are *)
(* written to.                                                             *)
(***************************************************************************)
EXTENDS Integers, Sequences, FiniteSets, TLC

VARIABLES
    groups,              \* heap of FunctionOverload objects, by identity 1..Len
    scope,               \* f_locals of the frame the definitions are written in
    _overload_registry,  \* the module global: None, or the table key -> function
    typing_has_registry, \* whether `typing._overload_registry` can be imported
    warnings,            \* ImportWarnings issued by _get_overload_registry
    defs,                \* per target name, the decorated definitions so far
    others,              \* whether anything but decorated definitions happened
    last                 \* the last operation and what its caller observed

vars == <<groups, scope, _overload_registry, typing_has_registry, warnings,
          defs, others, last>>

(***************************************************************************)
(* Bounds of the model.                                                    *)
(***************************************************************************)
MaxGroups == 2      \* FunctionOverload objects constructed
MaxFns == 3         \* candidates of one group
MaxDefs == 2        \* candidates added in all, under Spec

(***************************************************************************)
(* The host's values and classes, as far as isinstance looks at them.      *)
(***************************************************************************)
Empty == "<empty>"                       \* inspect.Parameter.empty
Values == {"s", "True", "None"}          \* 's', True, None
ClassOf(v) ==
    CASE v = "s" -> "str"
      [] v \in {"True", "False"} -> "bool"
      [] OTHER -> "NoneType"
Mro(c) == IF c = "bool" THEN {"bool", "int", "object"} ELSE {c, "object"}

\* isinstance(value, typ): "True", "False", or "TypeError" when typ is
\* typing.Any, which refuses isinstance for every value.
isinstance(value, typ) ==
    IF typ = "Any" THEN "TypeError"
    ELSE IF typ \in Mro(ClassOf(value)) THEN "True" ELSE "False"

(***************************************************************************)
(* The functions handed to add and to the decorator: __name__, the key the *)
(* registry files them under, the signature and what the body does.        *)
(* Functions 1 and 6 are two function objects made by the same `def` (a    *)
(* loop or a factory run twice): same module, qualname and first line.     *)
(***************************************************************************)
Param(n, t, d) == [name |-> n, annotation |-> t, default |-> d]
FnIds == 1..6
Fn(id) ==
    CASE id = 1 -> [name |-> "greet", qualname |-> "greet", line |-> 10,
                    params |-> <<Param("name", "str", Empty)>>,
                    body |-> "return"]
      [] id = 2 -> [name |-> "greet", qualname |-> "greet", line |-> 14,
                    params |-> <<Param("name", "str", Empty),
                                 Param("loud", "bool", "False")>>,
                    body |-> "return"]
      [] id = 3 -> [name |-> "f", qualname |-> "f", line |-> 20,
                    params |-> <<Param("x", "Any", Empty)>>,
                    body |-> "return"]
      [] id = 4 -> [name |-> "f", qualname |-> "f", line |-> 24,
                    params |-> <<Param("name", Empty, Empty)>>,
                    body |-> "TypeError"]
      [] id = 5 -> [name |-> "f", qualname |-> "f", line |-> 28,
                    params |-> <<Param("x", "int", "None")>>,
                    body |-> "ValueError"]
      [] OTHER  -> [name |-> "greet", qualname |-> "greet", line |-> 10,
                    params |-> <<Param("name", "str", Empty)>>,
                    body |-> "return"]
Module(id) == "m"
Key(id) == <<Module(id), Fn(id).qualname, Fn(id).line>>

Names == {"greet", "f"}
KwNames == {"name", "x", "loud"}

\* The calls: up to two arguments, at most one of them by keyword (one more
\* than any signature of Fn takes is not needed to overfill the others).
NoKw == [k \in {} |-> "s"]
Kwargs == {NoKw} \cup {[k \in {n} |-> v] : n \in KwNames, v \in Values}
PosArgs == {<<>>} \cup {<<v>> : v \in Values} \cup {<<v, w>> : v, w \in Values}
Calls == {c \in PosArgs \X Kwargs : Len(c[1]) + Cardinality(DOMAIN c[2]) <= 2}

(***************************************************************************)
(* inspect.Signature.bind followed by BoundArguments.apply_defaults.       *)
(***************************************************************************)
ParamNames(params) == {params[i].name : i \in DOMAIN params}
ParamOf(params, n) == params[CHOOSE i \in DOMAIN params : params[i].name = n]

bind(params, args, kwargs) ==
    LET byPos == {params[i].name : i \in DOMAIN params \cap (1..Len(args))}
        given == byPos \cup DOMAIN kwargs
    IN  IF Len(args) > Len(params) THEN [ok |-> FALSE]            \* too many positional
        ELSE IF DOMAIN kwargs \ ParamNames(params) # {} THEN [ok |-> FALSE] \* unexpected keyword
        ELSE IF DOMAIN kwargs \cap byPos # {} THEN [ok |-> FALSE] \* multiple values
        ELSE IF \E i \in DOMAIN params :
                    params[i].name \notin given /\ params[i].default = Empty
             THEN [ok |-> FALSE]                                  \* missing argument
        ELSE [ok |-> TRUE,
              arguments |->
                [n \in given |->
                    IF n \in DOMAIN kwargs THEN kwargs[n]
                    ELSE args[CHOOSE i \in DOMAIN params : params[i].name = n]]]

apply_defaults(params, arguments) ==
    [n \in ParamNames(params) |->
        IF n \in DOMAIN arguments THEN arguments[n]
        ELSE ParamOf(params, n).default]

(***************************************************************************)
(* FunctionOverload._dispatch.                                             *)
(***************************************************************************)
\* One round of the type-hint loop: "continue", or "TypeError" (raised by the
\* loop itself or by isinstance).
CheckHint(typ, value) ==
    IF typ = Empty THEN "continue"
    ELSE LET r == isinstance(value, typ)
         IN  IF r = "TypeError" THEN "TypeError"
             ELSE IF r = "True" THEN "continue"
             ELSE IF typ = "Any" THEN "continue"
             ELSE "TypeError"

\* The hint loop over bound.arguments, in parameter order.
RECURSIVE CheckHints(_, _, _)
CheckHints(params, arguments, k) ==
    IF k > Len(params) THEN "ok"
    ELSE IF CheckHint(params[k].annotation, arguments[params[k].name]) = "TypeError"
         THEN "TypeError"
         ELSE CheckHints(params, arguments, k + 1)

\* The try block without its type-hint loop: binding alone decides.
TryCandidateBindOnly(fn, args, kwargs) ==
    IF bind(Fn(fn).params, args, kwargs).ok THEN "return" ELSE "continue"

\* The try block for one candidate: "return" (return i) or "continue"
\* (a TypeError was raised inside and caught).
TryCandidate(fn, args, kwargs) ==
    LET params == Fn(fn).params
        bound == bind(params, args, kwargs)
    IN  IF ~bound.ok THEN "continue"
        ELSE IF CheckHints(params, apply_defaults(params, bound.arguments), 1) = "TypeError"
             THEN "continue"
             ELSE "return"

\* The for loop from candidate i on: the index returned (counted from 1), or
\* 0 when the loop ends and _dispatch raises.
RECURSIVE DispatchFrom(_, _, _, _)
DispatchFrom(fns, i, args, kwargs) ==
    IF i > Len(fns) THEN 0
    ELSE IF TryCandidate(fns[i], args, kwargs) = "return" THEN i
    ELSE DispatchFrom(fns, i + 1, args, kwargs)

_dispatch(self, args, kwargs) == DispatchFrom(self._fns, 1, args, kwargs)

\* The TypeError _dispatch raises when the loop ends.
NoMatch(self) ==
    [kind |-> "TypeError", by |-> "_dispatch",
     msg |-> <<"no matching overload for function", self.name>>]

NoExc == [kind |-> "none", by |-> "none", msg |-> <<>>]

\* A candidate run under a handler that re-raises whatever it raised as a
\* TypeError.
InvokeWrapped(fn) ==
    IF Fn(fn).body = "return"
    THEN [result |-> <<fn>>, exc |-> NoExc]
    ELSE [result |-> <<>>,
          exc |-> [kind |-> "TypeError", by |-> "candidate",
                   msg |-> <<"raised in the body of", Fn(fn).name>>]]

\* What running a candidate's body gives its caller: the value returned (the
\* function's own, so written as the function) or the exception raised.
Invoke(fn) ==
    IF Fn(fn).body = "return"
    THEN [result |-> <<fn>>, exc |-> NoExc]
    ELSE [result |-> <<>>,
          exc |-> [kind |-> Fn(fn).body, by |-> "candidate",
                   msg |-> <<"raised in the body of", Fn(fn).name>>]]

\* __call__ with the candidate invoked inside the try block of the loop: a
\* TypeError from its body is caught like a rejection and the loop goes on.
RECURSIVE CallFrom(_, _, _, _, _)
CallFrom(self, i, args, kwargs, tried) ==
    LET j == DispatchFrom(self._fns, i, args, kwargs)
    IN  IF j = 0
        THEN [invoked |-> tried, result |-> <<>>, exc |-> NoMatch(self)]
        ELSE IF Invoke(self._fns[j]).exc.kind = "TypeError"
        THEN CallFrom(self, j + 1, args, kwargs, Append(tried, j))
        ELSE [invoked |-> Append(tried, j),
              result |-> Invoke(self._fns[j]).result,
              exc |-> Invoke(self._fns[j]).exc]
CallFallingThrough(self, args, kwargs) == CallFrom(self, 1, args, kwargs, <<>>)

\* FunctionOverload.__call__: the candidates invoked (by index), the result,
\* the exception.
__call__(self, args, kwargs) ==
    LET i == _dispatch(self, args, kwargs)
    IN  IF i = 0
        THEN [invoked |-> <<>>, result |-> <<>>, exc |-> NoMatch(self)]
        ELSE [invoked |-> <<i>>,
              result |-> Invoke(self._fns[i]).result,
              exc |-> Invoke(self._fns[i]).exc]

(***************************************************************************)
(* _get_overload_registry and the registry.                                *)
(***************************************************************************)
EmptyTab == [k \in {} |-> 1]
Put(tab, key, v) == [k \in DOMAIN tab \cup {key} |-> IF k = key THEN v ELSE tab[k]]

\* What typing's registry holds when this module has been imported: the two
\* typing-overload stubs of `overload` itself (functions 95 and 100, named by
\* their first lines).
TypingTab ==
    Put(Put(EmptyTab, <<"overload", "overload", 95>>, 95),
        <<"overload", "overload", 100>>, 100)

None == [is_none |-> TRUE, tab |-> EmptyTab]

\* _get_overload_registry without its `is not None` test: the table is looked
\* up or made anew on every call.
GetRegistryUncached(reg, has_typing) ==
    [is_none |-> FALSE, tab |-> IF has_typing THEN TypingTab ELSE EmptyTab]

_get_overload_registry(reg, has_typing) ==
    IF ~reg.is_none THEN reg
    ELSE IF has_typing THEN [is_none |-> FALSE, tab |-> TypingTab]
    ELSE [is_none |-> FALSE, tab |-> EmptyTab]

\* Whether this call of _get_overload_registry warns (the ImportError branch).
Warns(reg, has_typing) == reg.is_none /\ ~has_typing

(***************************************************************************)
(* FunctionOverload.__init__ and add.                                      *)
(***************************************************************************)
\* `origin` is not a field of the object: it records who constructed it.
FunctionOverload(name, register, origin) ==
    [name |-> name, register |-> register, _fns |-> <<>>, origin |-> origin]

\* add that leaves out a function the group already holds.
addUnique(self, fn) ==
    IF \E i \in DOMAIN self._fns : self._fns[i] = fn THEN self
    ELSE [self EXCEPT !._fns = Append(@, fn)]

\* add, on the object ...
add(self, fn) == [self EXCEPT !._fns = Append(@, fn)]

\* ... and on the registry.
add_registry(reg, has_typing, self, fn) ==
    IF self.register
    THEN LET r == _get_overload_registry(reg, has_typing)
         IN  [r EXCEPT !.tab = Put(r.tab, Key(fn), fn)]
    ELSE reg

add_warnings(reg, has_typing, self) ==
    IF self.register /\ Warns(reg, has_typing) THEN 1 ELSE 0

(***************************************************************************)
(* The state machine.                                                      *)
(***************************************************************************)
Unbound == [kind |-> "unbound", ref |-> 0]
Plain == [kind |-> "plain", ref |-> 0]
Group(g) == [kind |-> "group", ref |-> g]

Last(op, g, fn, args, kwargs, out) ==
    [op |-> op, g |-> g, fn |-> fn, args |-> args, kwargs |-> kwargs,
     invoked |-> out.invoked, result |-> out.result, exc |-> out.exc]
Done == [invoked |-> <<>>, result |-> <<>>, exc |-> NoExc]
Raised(kind, msg) ==
    [invoked |-> <<>>, result |-> <<>>,
     exc |-> [kind |-> kind, by |-> "overload", msg |-> <<msg>>]]

Init ==
    /\ groups = <<>>
    /\ scope = [n \in Names |-> Unbound]
    /\ _overload_registry = None
    /\ typing_has_registry \in BOOLEAN
    /\ warnings = 0
    /\ defs = [n \in Names |-> <<>>]
    /\ others = FALSE
    /\ last = Last("init", 0, 0, <<>>, NoKw, Done)

RECURSIVE TotalFns(_)
TotalFns(gs) == IF gs = <<>> THEN 0 ELSE Len(Head(gs)._fns) + TotalFns(Tail(gs))
Room == TotalFns(groups) < MaxDefs

\* FunctionOverload(name, register), constructed directly.
New(name, register) ==
    /\ Len(groups) < MaxGroups
    /\ groups' = Append(groups, FunctionOverload(name, register, "direct"))
    /\ others' = TRUE
    /\ last' = Last("new", Len(groups) + 1, 0, <<>>, NoKw, Done)
    /\ UNCHANGED <<scope, _overload_registry, typing_has_registry, warnings, defs>>

\* group.add(fn), called directly.
Add(g, fn) ==
    /\ Len(groups[g]._fns) < MaxFns
    /\ groups' = [groups EXCEPT ![g] = add(@, fn)]
    /\ _overload_registry' =
          add_registry(_overload_registry, typing_has_registry, groups[g], fn)
    /\ warnings' = warnings
          + add_warnings(_overload_registry, typing_has_registry, groups[g])
    /\ others' = TRUE
    /\ last' = Last("add", g, fn, <<>>, NoKw, Done)
    /\ UNCHANGED <<scope, typing_has_registry, defs>>

\* A plain statement of the scope giving a name its first binding: to an
\* ordinary object (`name = ...`, an undecorated def) or to a group
\* constructed under that name (`f = FunctionOverload('f', ...)`).
Assign(n, v) ==
    /\ scope[n] = Unbound
    /\ v.kind = "group" => groups[v.ref].name = n
    /\ scope' = [scope EXCEPT ![n] = v]
    /\ others' = TRUE
    /\ last' = Last("assign", 0, 0, <<>>, NoKw, Done)
    /\ UNCHANGED <<groups, _overload_registry, typing_has_registry, warnings, defs>>

\* group(*args, **kwargs).
Call(g, args, kwargs) ==
    /\ last' = Last("call", g, 0, args, kwargs, __call__(groups[g], args, kwargs))
    /\ UNCHANGED <<groups, scope, _overload_registry, typing_has_registry,
                   warnings, defs, others>>

(***************************************************************************)
(* The decorator `overload`, applied to a definition of the scope: bare    *)
(* (`@overload`) or parameterized (`@overload(arg)`).                       *)
(***************************************************************************)
DecoArgs == {"<None>", "", "greet", "f", "<42>"}    \* None, '', 'greet', 'f', 42
IsNone(arg) == arg = "<None>"
IsStr(arg) == arg \notin {"<None>", "<42>"}

\* inspect.stack() as decorator sees it, innermost frame first: the bare shape
\* reaches decorator through overload, the parameterized one calls it from the
\* scope itself.
Stack(shape) ==
    IF shape = "bare" THEN <<"decorator", "overload", "caller">>
    ELSE <<"decorator", "caller">>

\* The bare shape passing no scope_level: decorator's default of 1.
ScopeLevelOne(shape) == 1

\* The scope_level decorator runs with.
ScopeLevel(shape) == IF shape = "bare" THEN 2 ELSE 1

\* stack()[scope_level][0]
FrameAt(shape) == Stack(shape)[ScopeLevel(shape) + 1]

\* frame.f_locals, for the names a definition can target: only the scope's own
\* frame binds any of them, and only a write to it lasts.
f_locals(frame) == IF frame = "caller" THEN scope ELSE [n \in Names |-> Unbound]

\* name = arg or fn.__name__
TargetName(arg, fn) == IF IsNone(arg) \/ arg = "" THEN Fn(fn).name ELSE arg

\* decorator constructing its group with register=False.
DecoratorGroupUnpublished(name) == FunctionOverload(name, FALSE, "overload")

\* FunctionOverload(name), as decorator constructs it.
DecoratorGroup(name) == FunctionOverload(name, TRUE, "overload")

\* overload(arg) raising TypeError('expected function name as argument').
DefineInvalid(shape, arg, fn) ==
    /\ shape = "param" /\ ~IsNone(arg) /\ ~IsStr(arg)
    /\ last' = Last("def", 0, 0, <<>>, NoKw,
                    Raised("TypeError", "expected function name as argument"))
    /\ UNCHANGED <<groups, scope, _overload_registry, typing_has_registry,
                   warnings, defs, others>>

\* The name is bound in the frame to something that is no group: .add fails.
DefineOnPlain(shape, arg, fn) ==
    /\ shape = "bare" \/ IsNone(arg) \/ IsStr(arg)
    /\ f_locals(FrameAt(shape))[TargetName(arg, fn)].kind = "plain"
    /\ last' = Last("def", 0, 0, <<>>, NoKw,
                    Raised("AttributeError", "object has no attribute 'add'"))
    /\ UNCHANGED <<groups, scope, _overload_registry, typing_has_registry,
                   warnings, defs, others>>

\* decorator(fn, scope_level) finding a group or making one, then the def
\* statement binding fn.__name__ to what the decorator returned.
DefineOk(shape, arg, fn) ==
    LET name == TargetName(arg, fn)
        frame == FrameAt(shape)
        found == f_locals(frame)[name]
        g == IF found.kind = "group" THEN found.ref ELSE Len(groups) + 1
        fn_overload == IF found.kind = "group" THEN groups[g] ELSE DecoratorGroup(name)
        written == IF frame = "caller" THEN [scope EXCEPT ![name] = Group(g)] ELSE scope
    IN  /\ shape = "bare" \/ IsNone(arg) \/ IsStr(arg)
        /\ found.kind # "plain"
        /\ found.kind = "group" => Len(groups[g]._fns) < MaxFns
        /\ found.kind = "unbound" => Len(groups) < MaxGroups
        /\ groups' = IF found.kind = "group"
                     THEN [groups EXCEPT ![g] = add(fn_overload, fn)]
                     ELSE Append(groups, add(fn_overload, fn))
        /\ _overload_registry' =
              add_registry(_overload_registry, typing_has_registry, fn_overload, fn)
        /\ warnings' = warnings
              + add_warnings(_overload_registry, typing_has_registry, fn_overload)
        /\ scope' = [written EXCEPT ![Fn(fn).name] = Group(g)]
        /\ defs' = [defs EXCEPT ![name] = Append(@, fn)]
        /\ last' = Last("def", g, fn, <<shape, arg>>, NoKw, Done)
        /\ UNCHANGED <<typing_has_registry, others>>

Define(shape, arg, fn) ==
    \/ DefineInvalid(shape, arg, fn)
    \/ DefineOnPlain(shape, arg, fn)
    \/ DefineOk(shape, arg, fn)

(***************************************************************************)
(* Spec: definitions, direct construction and calls in one scope.          *)
(***************************************************************************)
DefFns == {1, 3, 6}
DefCalls == {<<<<"s">>, NoKw>>}
DirectNames == {"f"}

Next ==
    \/ \E n \in DirectNames, r \in BOOLEAN : New(n, r)
    \/ \E g \in DOMAIN groups, fn \in DefFns : Room /\ Add(g, fn)
    \/ \E n \in Names, v \in {Plain} \cup {Group(g) : g \in DOMAIN groups} : Assign(n, v)
    \/ \E fn \in DefFns : Room /\ Define("bare", "<None>", fn)
    \/ \E arg \in DecoArgs, fn \in DefFns : Room /\ Define("param", arg, fn)
    \/ \E g \in DOMAIN groups, c \in DefCalls : Call(g, c[1], c[2])

Spec == Init /\ [][Next]_vars

(***************************************************************************)
(* DispatchSpec: one group, built by add and called with every call of     *)
(* Calls.                                                                  *)
(***************************************************************************)
InitDispatch ==
    /\ \E n \in Names : groups = <<FunctionOverload(n, FALSE, "direct")>>
    /\ scope = [n \in Names |-> Unbound]
    /\ _overload_registry = None
    /\ typing_has_registry = TRUE
    /\ warnings = 0
    /\ defs = [n \in Names |-> <<>>]
    /\ others = TRUE
    /\ last = Last("new", 1, 0, <<>>, NoKw, Done)

DispatchFns == FnIds \ {6}

NextDispatch ==
    \/ \E fn \in DispatchFns : Add(1, fn)
    \/ \E c \in Calls : Call(1, c[1], c[2])

DispatchSpec == InitDispatch /\ [][NextDispatch]_vars

(***************************************************************************)
(* What the documentation says of matching: binding by the host's rules,   *)
(* then per declared type: the any-marker accepts, a concrete type accepts *)
(* its instances, no declared type accepts.                                *)
(***************************************************************************)
IsCall == last.op = "call"
Called == groups[last.g]
Bound(fn) == bind(Fn(fn).params, last.args, last.kwargs)
Binds(fn) == Bound(fn).ok
ValueOf(fn, k) == apply_defaults(Fn(fn).params, Bound(fn).arguments)[Fn(fn).params[k].name]
IsConcrete(typ) == typ \notin {Empty, "Any"}
InstanceOf(value, typ) == typ \in Mro(ClassOf(value))
Accepted(fn, k) ==
    LET typ == Fn(fn).params[k].annotation
    IN  typ = Empty \/ typ = "Any" \/ InstanceOf(ValueOf(fn, k), typ)
Matches(fn) == Binds(fn) /\ \A k \in DOMAIN Fn(fn).params : Accepted(fn, k)
Matching == {i \in DOMAIN Called._fns : Matches(Called._fns[i])}
Lowest(S) == CHOOSE i \in S : \A j \in S : i <= j
DispatchFailed == last.exc.by = "_dispatch"

\* C1: the candidate a call invokes is the one of lowest registration index
\* among those that bind the arguments and pass the type checks, and no other
\* candidate is invoked.
C1_LowestMatchInvoked ==
    IsCall /\ Matching # {} => last.invoked = <<Lowest(Matching)>>

\* C2: when no candidate binds the arguments and passes the type checks (an
\* empty group included), the call raises the dispatch failure, whose message
\* names the group, and invokes no candidate.
C2_NoMatchRaises ==
    IsCall /\ Matching = {} =>
        /\ DispatchFailed
        /\ last.exc.kind = "TypeError"
        /\ last.exc.msg = <<"no matching overload for function", Called.name>>
        /\ last.invoked = <<>>
        /\ last.result = <<>>

\* A call that nothing matches, of a group where one candidate binds (and fails
\* on a type) and another does not bind.
C2_Witness ==
    /\ IsCall /\ Matching = {} /\ DispatchFailed
    /\ \E i, j \in DOMAIN Called._fns : Binds(Called._fns[i]) /\ ~Binds(Called._fns[j])

\* C3: a candidate whose arguments bind and whose only declared types are the
\* any-marker is never rejected: the call invokes it or an earlier candidate.
OnlyAny(fn) ==
    /\ \E k \in DOMAIN Fn(fn).params : Fn(fn).params[k].annotation = "Any"
    /\ \A k \in DOMAIN Fn(fn).params : Fn(fn).params[k].annotation \in {Empty, "Any"}
C3_AnyAcceptsEveryValue ==
    IsCall =>
        \A i \in DOMAIN Called._fns :
            Binds(Called._fns[i]) /\ OnlyAny(Called._fns[i]) =>
                ~DispatchFailed /\ last.invoked # <<>> /\ last.invoked[1] <= i

\* C4: a candidate with a concretely typed parameter is accepted exactly when
\* the values pass the instance check; one whose value fails it is skipped
\* without an error of its own, and the call fails only if no later candidate
\* matches either.
FailsConcrete(fn) ==
    /\ Binds(fn)
    /\ \E k \in DOMAIN Fn(fn).params :
          /\ IsConcrete(Fn(fn).params[k].annotation)
          /\ ~InstanceOf(ValueOf(fn, k), Fn(fn).params[k].annotation)
PassesConcrete(fn) ==
    /\ Binds(fn)
    /\ \A k \in DOMAIN Fn(fn).params :
          /\ Fn(fn).params[k].annotation # "Any"
          /\ IsConcrete(Fn(fn).params[k].annotation)
                => InstanceOf(ValueOf(fn, k), Fn(fn).params[k].annotation)
C4_ConcreteTypeSkipsSilently ==
    IsCall =>
        \A i \in DOMAIN Called._fns :
            /\ FailsConcrete(Called._fns[i]) =>
                  /\ last.invoked # <<i>>
                  /\ DispatchFailed =>
                        \A j \in DOMAIN Called._fns : j > i => ~Matches(Called._fns[j])
                  /\ ~DispatchFailed => last.invoked # <<>>
            /\ PassesConcrete(Called._fns[i]) =>
                  ~DispatchFailed /\ last.invoked # <<>> /\ last.invoked[1] <= i

\* C7: an exception raised inside the matched candidate reaches the caller as
\* it is, whatever its kind, and no other candidate is tried or invoked.
C7_CandidateErrorPropagates ==
    IsCall /\ last.invoked # <<>> =>
        LET fn == Called._fns[last.invoked[1]]
        IN  Fn(fn).body # "return" =>
                /\ Len(last.invoked) = 1
                /\ last.exc = Invoke(fn).exc
                /\ last.exc.kind = Fn(fn).body
                /\ last.exc.by = "candidate"
                /\ last.result = <<>>

\* The first candidate matched and raised a TypeError, and the next one would
\* have matched the call too.
C7_Witness ==
    /\ IsCall /\ last.invoked = <<1>> /\ Len(Called._fns) >= 2
    /\ Fn(Called._fns[1]).body = "TypeError"
    /\ last.exc.kind = "TypeError" /\ last.exc.by = "candidate"
    /\ Matches(Called._fns[2]) /\ Fn(Called._fns[2]).body = "return"

IsPrefix(a, b) == Len(a) <= Len(b) /\ \A i \in DOMAIN a : a[i] = b[i]
OnlyDefinitionsOf(n) ==
    ~others /\ defs[n] # <<>> /\ \A m \in Names \ {n} : defs[m] = <<>>

\* C5: after decorated definitions that all target one name of the scope, the
\* scope binds that name to a single group, the only one made, holding those
\* definitions in their order.
C5_OneGroupPerName ==
    \A n \in Names :
        OnlyDefinitionsOf(n) =>
            /\ scope[n].kind = "group"
            /\ groups[scope[n].ref]._fns = defs[n]
            /\ Len(groups) = 1

\* Two definitions of one name, the second one of the bare shape.
C5_Witness ==
    /\ \E n \in Names : OnlyDefinitionsOf(n) /\ Len(defs[n]) >= 2
    /\ last.op = "def" /\ last.args[1] = "bare"

\* C6: every step leaves each candidate sequence a prefix of what it becomes;
\* add appends exactly its function at the end, duplicates included, and a call
\* changes no sequence.
C6_AppendOnly ==
    [][/\ Len(groups') >= Len(groups)
       /\ \A g \in DOMAIN groups : IsPrefix(groups[g]._fns, groups'[g]._fns)
       /\ last'.op = "add" =>
             /\ groups'[last'.g]._fns = Append(groups[last'.g]._fns, last'.fn)
             /\ \A g \in DOMAIN groups \ {last'.g} : groups'[g] = groups[g]
       /\ last'.op = "call" => groups' = groups]_vars

\* A group that holds the same function twice and has been called since.
C6_Witness ==
    /\ last.op = "call"
    /\ \E i, j \in DOMAIN Called._fns : i < j /\ Called._fns[i] = Called._fns[j]

\* C9 as stated: wherever the decorator can still make a group, it can make
\* one whose publish flag is disabled.
C9_DecoratorCanSuppress ==
    Len(groups) < MaxGroups /\ Room =>
        ENABLED (/\ \/ \E fn \in DefFns : Define("bare", "<None>", fn)
                    \/ \E arg \in DecoArgs, fn \in DefFns : Define("param", arg, fn)
                 /\ \E g \in DOMAIN groups' : g > Len(groups) /\ ~groups'[g].register)

\* C9: the decorator takes a name only; every group it makes publishes and is
\* named after the explicit name or else the definition's own, and a
\* definition it appends to a publishing group is in the registry.
C9_DecoratorAlwaysPublishes ==
    /\ \A g \in DOMAIN groups : groups[g].origin = "overload" => groups[g].register
    /\ last.op = "def" /\ last.g # 0 =>
          LET name == IF last.args[2] \in {"<None>", ""}
                      THEN Fn(last.fn).name ELSE last.args[2]
          IN  /\ groups[last.g].origin = "overload" /\ Len(groups[last.g]._fns) = 1
                    => groups[last.g].name = name
              /\ groups[last.g].register =>
                    /\ ~_overload_registry.is_none
                    /\ Key(last.fn) \in DOMAIN _overload_registry.tab
                    /\ _overload_registry.tab[Key(last.fn)] = last.fn

\* A definition under an explicit name that is not its own made a group, while
\* a group constructed directly has its flag disabled.
C9_Witness ==
    /\ last.op = "def" /\ last.g # 0 /\ last.args[2] = "f" /\ Fn(last.fn).name = "greet"
    /\ groups[last.g].origin = "overload" /\ Len(groups[last.g]._fns) = 1
    /\ \E g \in DOMAIN groups : groups[g].origin = "direct" /\ ~groups[g].register

\* C10 as stated: no step removes an entry of the registry or changes the
\* function an entry maps to.
C10_EntriesNeverReplaced ==
    [][\A k \in DOMAIN _overload_registry.tab :
          /\ k \in DOMAIN _overload_registry'.tab
          /\ _overload_registry'.tab[k] = _overload_registry.tab[k]]_vars

\* C10: the registry is made once and never loses a key; an entry changes only
\* when a publishing add files another function under that same key, and then
\* maps to that function; an add with publishing disabled changes nothing.
C10_KeysKeptLastAddWins ==
    [][/\ ~_overload_registry.is_none => ~_overload_registry'.is_none
       /\ \A k \in DOMAIN _overload_registry.tab :
             /\ k \in DOMAIN _overload_registry'.tab
             /\ _overload_registry'.tab[k] # _overload_registry.tab[k] =>
                   /\ last'.op \in {"add", "def"} /\ last'.g # 0
                   /\ groups'[last'.g].register
                   /\ k = Key(last'.fn)
                   /\ _overload_registry'.tab[k] = last'.fn
       /\ \A k \in DOMAIN _overload_registry'.tab \ DOMAIN _overload_registry.tab :
             \/ _overload_registry.is_none /\ k \in DOMAIN TypingTab
             \/ /\ last'.op \in {"add", "def"} /\ last'.g # 0
                /\ k = Key(last'.fn) /\ _overload_registry'.tab[k] = last'.fn
       /\ last'.op \in {"add", "def"} /\ last'.g # 0 /\ ~groups'[last'.g].register =>
             _overload_registry' = _overload_registry]_vars

\* Function 6 was published over function 1, which the group still holds, and
\* the stubs typing had filed are still there.
C10_Witness ==
    /\ last.op \in {"add", "def"} /\ last.fn = 6 /\ last.g # 0
    /\ groups[last.g].register /\ groups[last.g]._fns = <<1, 6>>
    /\ _overload_registry.tab[Key(1)] = 6
    /\ DOMAIN TypingTab \subseteq DOMAIN _overload_registry.tab

====
